---- MODULE Spec2Model ----
(***************************************************************************)
(* A model of package containers (src/containers.go): the operations the   *)
(* package offers on top of the Docker engine client.  The engine is the   *)
(* environment: every engine request either succeeds, with its effect on   *)
(* the engine's state, or is rejected with an error text.                  *)
(***************************************************************************)
EXTENDS Integers, Sequences, FiniteSets, TLC

VARIABLES
    build,      \* the running BuildImage call: pc, tag, log, body, end, closed, responded, err, odd
    images,     \* engine: image name -> image ID, or NoImage
    del,        \* the running DeleteImage call
    delLog,     \* results of the finished DeleteImage calls, and engine changes between them
    exec,       \* the running Exec call
    containers, \* engine: container ID -> state, name and health record
    last,       \* the container call that returned last, and what it returned
    untagged,   \* engine: image ID -> whether the engine holds it without a name
    pruned,     \* the PruneDanglingImages call that returned last
    conc        \* DeleteImage calls running side by side, one for each caller

vars == <<build, images, del, delLog, exec, containers, last, untagged, pruned, conc>>

----------------------------------------------------------------------------
(* Errors.  errors.New(label + ident + " => " + cause) is kept as its parts. *)

NilErr == [kind |-> "nil", label |-> "", ident |-> "", cause |-> "", code |-> <<>>, text |-> <<>>]

Wrapped(label, ident, cause) ==
    [kind |-> "error", label |-> label, ident |-> ident, cause |-> cause,
     code |-> <<>>, text |-> <<>>]

\* The engine's error texts.
EngineErrs == {"engine: request failed"}

----------------------------------------------------------------------------
(* BuildImage                                                              *)

MaxLog == 3

\* What the engine streams back: JSON log records, JSON error records
\* ({"error": ..., "errorDetail": ...}) and bytes that are no JSON value.
RecordKinds == {"log", "error", "malformed"}

RECURSIVE SeqsUpTo(_, _)
SeqsUpTo(S, n) ==
    IF n = 0 THEN {<<>>}
    ELSE LET shorter == SeqsUpTo(S, n - 1)
         IN  shorter \cup {Append(s, x) : s \in {t \in shorter : Len(t) = n - 1}, x \in S}

BuildLogs == SeqsUpTo(RecordKinds, MaxLog)

ImageTags == {"app:1", "app:2"}

BuildIdle ==
    [pc |-> "idle", tag |-> "", log |-> <<>>, body |-> <<>>, end |-> "EOF",
     closed |-> 0, responded |-> FALSE, err |-> NilErr, odd |-> FALSE]

HasErrorRecord(log) == \E i \in 1..Len(log) : log[i] = "error"

\* json.NewDecoder(image.Body).Decode(&buildOut): the error it returns for the
\* record at the head of what is left of the body.  ImageBuildOut has no
\* field for "error", so an error record decodes like any other record.
DecodeErr(body, end) ==
    IF body = <<>> THEN (IF end = "EOF" THEN "io.EOF" ELSE "read error")
    ELSE IF body[1] = "malformed" THEN "syntax error"
    ELSE "nil"

\* The loop's exit test: if outErr == io.EOF.
LoopExits(outErr) == outErr = "io.EOF"

\* image.Body.Close()
BodyCloseSkipped(closed) == closed

BodyClose(closed) == closed + 1

\* The value BuildImage returns after the loop.
BuildLoopResult(log) == NilErr

\* buildCtx, buildCtxErr := archive.Tar(path, archive.Uncompressed)
BuildTar ==
    /\ build.pc = "idle"
    /\ \E tag \in ImageTags, tarErr \in EngineErrs \cup {""} :
          build' = IF tarErr # ""
                   THEN [BuildIdle EXCEPT !.pc = "returned", !.tag = tag,
                            !.err = Wrapped("FAILED TO CREATE BUILD CONTEXT FOR IMAGE ", tag, tarErr)]
                   ELSE [BuildIdle EXCEPT !.pc = "submit", !.tag = tag]
    /\ UNCHANGED <<images, del, delLog, exec, containers, last, untagged, pruned, conc>>

\* image, imgErr := DockerClient.ImageBuild(...)
BuildSubmit ==
    /\ build.pc = "submit"
    /\ \/ \E imgErr \in EngineErrs :
             build' = [build EXCEPT !.pc = "returned",
                          !.err = Wrapped("FAILED TO BUILD IMAGE ", build.tag, imgErr)]
       \/ \E log \in BuildLogs, end \in {"EOF", "ERR"} :
             build' = [build EXCEPT !.pc = "decode", !.responded = TRUE,
                          !.log = log, !.body = log, !.end = end]
    /\ UNCHANGED <<images, del, delLog, exec, containers, last, untagged, pruned, conc>>

\* One pass of the for loop.  Each pass makes a new decoder, which reads ahead
\* of the value it decodes; what it has read and not decoded is dropped with
\* it, and the next decoder may start in the middle of a record.  A pass
\* whose read fails changes nothing but the number of passes made, kept as
\* its parity.
BuildDecode ==
    /\ build.pc = "decode"
    /\ LET outErr == DecodeErr(build.body, build.end)
       IN  IF LoopExits(outErr)
           THEN build' = [build EXCEPT !.pc = "returned",
                             !.closed = BodyClose(build.closed),
                             !.err = BuildLoopResult(build.log)]
           ELSE IF build.body = <<>>
           THEN build' = [build EXCEPT !.odd = ~build.odd]
           ELSE \E n \in 1..Len(build.body), cut \in BOOLEAN :
                   LET rest == SubSeq(build.body, n + 1, Len(build.body))
                   IN  build' = [build EXCEPT !.body =
                                    IF cut /\ rest # <<>>
                                    THEN <<"malformed">> \o Tail(rest)
                                    ELSE rest]
    /\ UNCHANGED <<images, del, delLog, exec, containers, last, untagged, pruned, conc>>

\* The caller takes the result; the next call starts from scratch.
BuildReturn ==
    /\ build.pc = "returned"
    /\ build' = BuildIdle
    /\ UNCHANGED <<images, del, delLog, exec, containers, last, untagged, pruned, conc>>

----------------------------------------------------------------------------
(* DeleteImage                                                             *)

MaxCalls == 3

NoImage == "none"

ImageIDs == {"sha256:a", "sha256:b"}

DelIdle ==
    [pc |-> "idle", name |-> "", present |-> FALSE, lookupOK |-> FALSE,
     id |-> NoImage, exists |-> FALSE]

\* exists := true; if imgErr != nil { exists = false }
LookupIgnored(imgErr) == TRUE

LookupExists(imgErr) == imgErr = ""

\* What DeleteImage returns, given exists and ImageRemove's error ("" when
\* the removal succeeded or was not attempted).
DeleteResultConflated(name, exists, imgRemoveErr) ==
    IF exists /\ imgRemoveErr # ""
    THEN <<FALSE, NilErr>>
    ELSE <<exists, NilErr>>

DeleteResultSwallowed(name, exists, imgRemoveErr) == <<exists, NilErr>>

DeleteResult(name, exists, imgRemoveErr) ==
    IF exists /\ imgRemoveErr # ""
    THEN <<exists, Wrapped("FAILED TO DELETE IMAGE: ", name, imgRemoveErr)>>
    ELSE <<exists, NilErr>>

\* The engine's forced, child-pruning removal by image ID: every name of
\* the image goes with it.
RemoveOptions == [Force |-> TRUE, PruneChildren |-> TRUE]

EngineImageRemove(imgs, id) ==
    [n \in ImageTags |-> IF imgs[n] = id THEN NoImage ELSE imgs[n]]

DelEntry(d, removeOK, res) ==
    [op |-> "delete", name |-> d.name, present |-> d.present,
     lookupOK |-> d.lookupOK, removeOK |-> removeOK,
     existed |-> res[1], err |-> res[2], gone |-> FALSE]

\* img, _, imgErr := DockerClient.ImageInspectWithRaw(ctx, imageName), and the
\* return when the image is taken not to exist.  The lookup of an absent
\* image fails; the lookup of a present one fails when the engine does.
DeleteImageInspect ==
    /\ del.pc = "idle"
    /\ Len(delLog) < MaxCalls
    /\ \E name \in ImageTags, imgErr \in EngineErrs \cup {""} :
          /\ images[name] = NoImage => imgErr # ""
          /\ LET d == [DelIdle EXCEPT !.name = name,
                          !.present = images[name] # NoImage,
                          !.lookupOK = imgErr = "",
                          !.id = IF imgErr = "" THEN images[name] ELSE NoImage,
                          !.exists = LookupExists(imgErr)]
             IN  IF d.exists
                 THEN /\ del' = [d EXCEPT !.pc = "remove"]
                      /\ UNCHANGED delLog
                 ELSE /\ del' = DelIdle
                      /\ delLog' = Append(delLog,
                            [DelEntry(d, FALSE, DeleteResult(name, d.exists, ""))
                                EXCEPT !.gone = images[name] = NoImage])
    /\ UNCHANGED <<build, images, exec, containers, last, untagged, pruned, conc>>

\* _, imgRemoveErr := DockerClient.ImageRemove(ctx, img.ID, RemoveOptions), and
\* the return.  The engine removes the image or rejects the request; it
\* rejects the removal of an image it does not hold.
DeleteImageRemove ==
    /\ del.pc = "remove"
    /\ \E imgRemoveErr \in EngineErrs \cup {""} :
          /\ del.id = NoImage => imgRemoveErr # ""
          /\ images' = IF imgRemoveErr = "" /\ RemoveOptions.Force
                       THEN EngineImageRemove(images, del.id)
                       ELSE images
          /\ delLog' = Append(delLog,
                [DelEntry(del, imgRemoveErr = "", DeleteResult(del.name, del.exists, imgRemoveErr))
                    EXCEPT !.gone = images'[del.name] = NoImage])
    /\ del' = DelIdle
    /\ UNCHANGED <<build, exec, containers, last, untagged, pruned, conc>>

\* An image the engine holds under no name any more.
Orphaned(imgs, id) == id # NoImage /\ \A n \in ImageTags : imgs[n] # id

\* Between two calls another operation (a build, see BuildImage's Tags) gives
\* a name to an image.  The image that had the name and has no other is kept
\* without a name: dangling, or referenced by a container or a child image.
EngineTagImage ==
    /\ del.pc = "idle"
    /\ Len(delLog) < MaxCalls
    /\ \E name \in ImageTags, id \in ImageIDs :
          /\ images[name] # id
          /\ images' = [images EXCEPT ![name] = id]
          /\ \E mark \in {"dangling", "referenced"} :
                untagged' = [i \in ImageIDs |->
                                IF i = id THEN "no"
                                ELSE IF i = images[name] /\ Orphaned(images', i) THEN mark
                                ELSE untagged[i]]
          /\ delLog' = Append(delLog,
                [op |-> "tag", name |-> name, present |-> FALSE, lookupOK |-> FALSE,
                 removeOK |-> FALSE, existed |-> FALSE, err |-> NilErr, gone |-> FALSE])
    /\ UNCHANGED <<build, del, exec, containers, last, pruned, conc>>

----------------------------------------------------------------------------
(* PruneDanglingImages                                                     *)

\* pruneFilters.Add("dangling", "true")
PruneFiltersAll == [dangling |-> "false"]

PruneFilters == [dangling |-> "true"]

\* Bytes an image takes on the engine's disk.
ImageSize == [id \in ImageIDs |-> IF id = "sha256:a" THEN 5 ELSE 7]

RECURSIVE SpaceOf(_)
SpaceOf(ids) ==
    IF ids = {} THEN 0
    ELSE LET id == CHOOSE i \in ids : TRUE
         IN  ImageSize[id] + SpaceOf(ids \ {id})

Tagged(imgs) == {imgs[n] : n \in ImageTags} \ {NoImage}

Dangling(unt) == {id \in ImageIDs : unt[id] = "dangling"}

Referenced(unt) == {id \in ImageIDs : unt[id] = "referenced"}

\* The images the engine's prune removes: with dangling=true the images that
\* have no name and that nothing refers to; with dangling=false every image
\* no container uses, named or not.
EngineImagesPrune(pruneFilters, imgs, unt) ==
    IF pruneFilters.dangling = "true"
    THEN Dangling(unt)
    ELSE Dangling(unt) \cup Tagged(imgs)

\* What PruneDanglingImages returns.
PruneResult(pruneReport, pruneErr) ==
    IF pruneErr # ""
    THEN <<pruneReport, Wrapped("FAILED TO PRUNE DANGLING IMAGES ", "", pruneErr)>>
    ELSE <<pruneReport, NilErr>>

NoReport == [ImagesDeleted |-> {}, SpaceReclaimed |-> 0]

PruneIdle ==
    [done |-> FALSE, report |-> NoReport, err |-> NilErr, engineOK |-> FALSE,
     dangling |-> {}, tagged |-> {}, referenced |-> {},
     taggedAfter |-> {}, referencedAfter |-> {}]

\* pruneReport, pruneErr := DockerClient.ImagesPrune(ctx, pruneFilters), and
\* the return.  A request the engine fails removes nothing and comes back
\* with the zero report.
PruneDanglingImages ==
    /\ del.pc = "idle"
    /\ \E pruneErr \in EngineErrs \cup {""} :
          LET removed == IF pruneErr = ""
                         THEN EngineImagesPrune(PruneFilters, images, untagged)
                         ELSE {}
              pruneReport == [ImagesDeleted |-> removed, SpaceReclaimed |-> SpaceOf(removed)]
              res == PruneResult(pruneReport, pruneErr)
          IN  /\ images' = [n \in ImageTags |->
                               IF images[n] \in removed THEN NoImage ELSE images[n]]
              /\ untagged' = [id \in ImageIDs |->
                                 IF id \in removed THEN "no" ELSE untagged[id]]
              /\ pruned' = [done |-> TRUE, report |-> res[1], err |-> res[2],
                            engineOK |-> pruneErr = "",
                            dangling |-> Dangling(untagged),
                            tagged |-> Tagged(images),
                            referenced |-> Referenced(untagged),
                            taggedAfter |-> Tagged(images'),
                            referencedAfter |-> Referenced(untagged')]
    /\ UNCHANGED <<build, del, delLog, exec, containers, last, conc>>

----------------------------------------------------------------------------
(* DeleteImage calls on different names, side by side                      *)

Callers == {"g1", "g2"}

\* Each caller deletes a name of its own.
Targets == {t \in [Callers -> ImageTags] : \A p, q \in Callers : p # q => t[p] # t[q]}

NoSuchImage == "No such image"

CallIdle ==
    [pc |-> "idle", engineOK |-> FALSE, id |-> NoImage, exists |-> FALSE,
     ret |-> <<FALSE, NilErr>>]

ConcIdle ==
    [frame |-> [p \in Callers |-> CallIdle],
     target |-> [p \in Callers |-> ""],
     before |-> [n \in ImageTags |-> NoImage]]

\* The engine's answer to the lookup of a name: it knows no such image, or it
\* fails, or it answers.
EngineInspectErr(imgs, name, engineOK) ==
    IF imgs[name] = NoImage THEN NoSuchImage
    ELSE IF engineOK THEN ""
    ELSE CHOOSE e \in EngineErrs : TRUE

\* The engine's answer to the removal of an image by its ID.
EngineRemoveErr(imgs, id) ==
    IF \E n \in ImageTags : imgs[n] = id /\ id # NoImage THEN "" ELSE NoSuchImage

\* img, _, imgErr := DockerClient.ImageInspectWithRaw(ctx, imageName) of
\* caller p, and the return when the image is taken not to exist.
ConcInspect(p) ==
    /\ conc.frame[p].pc = "idle"
    /\ \E engineOK \in BOOLEAN :
          LET name == conc.target[p]
              imgErr == EngineInspectErr(images, name, engineOK)
              exists == LookupExists(imgErr)
          IN  conc' = [conc EXCEPT !.frame[p] =
                          IF exists
                          THEN [CallIdle EXCEPT !.pc = "remove", !.engineOK = engineOK,
                                   !.id = images[name], !.exists = exists]
                          ELSE [CallIdle EXCEPT !.pc = "done", !.engineOK = engineOK,
                                   !.ret = DeleteResult(name, exists, "")]]
    /\ UNCHANGED <<build, images, del, delLog, exec, containers, last, untagged, pruned>>

\* _, imgRemoveErr := DockerClient.ImageRemove(ctx, img.ID, RemoveOptions) of
\* caller p, and the return.
ConcRemove(p) ==
    /\ conc.frame[p].pc = "remove"
    /\ LET f == conc.frame[p]
           imgRemoveErr == EngineRemoveErr(images, f.id)
       IN  /\ images' = IF imgRemoveErr = "" THEN EngineImageRemove(images, f.id) ELSE images
           /\ conc' = [conc EXCEPT !.frame[p] =
                          [f EXCEPT !.pc = "done",
                              !.ret = DeleteResult(conc.target[p], f.exists, imgRemoveErr)]]
    /\ UNCHANGED <<build, del, delLog, exec, containers, last, untagged, pruned>>

\* The same call run alone on the engine's images, with the same answer of
\* the engine to its lookup: what it returns and the images it leaves.
SeqDeleteImage(imgs, name, engineOK) ==
    LET imgErr == EngineInspectErr(imgs, name, engineOK)
        exists == LookupExists(imgErr)
    IN  IF exists
        THEN LET imgRemoveErr == EngineRemoveErr(imgs, imgs[name])
             IN  [ret |-> DeleteResult(name, exists, imgRemoveErr),
                  imgs |-> IF imgRemoveErr = "" THEN EngineImageRemove(imgs, imgs[name]) ELSE imgs]
        ELSE [ret |-> DeleteResult(name, exists, ""), imgs |-> imgs]

\* The calls run one after another, first p then q.
OneAfterAnother(p, q) ==
    LET first == SeqDeleteImage(conc.before, conc.target[p], conc.frame[p].engineOK)
        second == SeqDeleteImage(first.imgs, conc.target[q], conc.frame[q].engineOK)
    IN  [ret |-> [c \in {p, q} |-> IF c = p THEN first.ret ELSE second.ret],
         imgs |-> second.imgs]

----------------------------------------------------------------------------
(* Exec                                                                    *)

MaxFrames == 2

\* The multiplexed stream of an attached exec instance: frames of a header
\* (the origin in its first byte, the payload's length big-endian in its last
\* four) and the payload.
StdWriterPrefixLen == 8

StdWriterFdIndex == 1

StdWriterSizeIndex == 5

Stdout == 1

Stderr == 2

Systemerr == 3

Payloads == {<<>>, <<104>>, <<104, 105>>}

Frames == [tag : {Stdout, Stderr, Systemerr}, payload : Payloads]

BigEndian32(n) ==
    <<(n \div 16777216) % 256, (n \div 65536) % 256, (n \div 256) % 256, n % 256>>

Uint32(b) == b[1] * 16777216 + b[2] * 65536 + b[3] * 256 + b[4]

EncodeFrame(f) == <<f.tag, 0, 0, 0>> \o BigEndian32(Len(f.payload)) \o f.payload

RECURSIVE Mux(_)
Mux(frames) ==
    IF frames = <<>> THEN <<>> ELSE EncodeFrame(Head(frames)) \o Mux(Tail(frames))

\* stdcopy.StdCopy: the size of the frame whose header is in buf.
FrameSize(buf) ==
    Uint32(SubSeq(buf, StdWriterSizeIndex, StdWriterSizeIndex + 3))

\* The bytes StdCopy waits for before it goes on: a full header, then the
\* full frame.
NeedHeaderOnly(buf) == StdWriterPrefixLen

Need(buf) ==
    IF Len(buf) < StdWriterPrefixLen
    THEN StdWriterPrefixLen
    ELSE FrameSize(buf) + StdWriterPrefixLen

Min(a, b) == IF a < b THEN a ELSE b

\* buf[stdWriterPrefixLen : frameSize+stdWriterPrefixLen]
FramePayload(buf) ==
    SubSeq(buf, StdWriterPrefixLen + 1,
           Min(Len(buf), FrameSize(buf) + StdWriterPrefixLen))

\* copy(buf, buf[frameSize+stdWriterPrefixLen:]); nr -= frameSize + stdWriterPrefixLen
FrameRest(buf) ==
    SubSeq(buf, Min(Len(buf), FrameSize(buf) + StdWriterPrefixLen) + 1, Len(buf))

\* The exit codes the engine reports.
ExitCodes == {0, 1, 10, 127}

\* fmt.Sprint of an int: its decimal digits, as bytes.
RECURSIVE Digits(_)
Digits(n) ==
    IF n < 10 THEN <<48 + n>> ELSE Append(Digits(n \div 10), 48 + (n % 10))

Sprint(n) == IF n < 0 THEN <<45>> \o Digits(0 - n) ELSE Digits(n)

ExecIdle ==
    [pc |-> "idle", frames |-> <<>>, wire |-> <<>>, end |-> "EOF", buf |-> <<>>,
     outBuf |-> <<>>, errBuf |-> <<>>, attached |-> FALSE, released |-> 0,
     split |-> FALSE, copied |-> FALSE, inspected |-> FALSE, exitCode |-> 0,
     ret |-> <<>>, err |-> NilErr, trace |-> <<>>]

\* Where Exec goes after a step: every failed step returns, a step that
\* succeeded is followed by the next one, the inspection by the return.
NextStepInspectsAnyway(step, ok) ==
    IF step = "create" THEN (IF ok THEN "attach" ELSE "returned")
    ELSE IF step = "attach" THEN (IF ok THEN "copy" ELSE "returned")
    ELSE IF step = "copy" THEN "inspect"
    ELSE "returned"

NextStep(step, ok) ==
    IF step = "create" THEN (IF ok THEN "attach" ELSE "returned")
    ELSE IF step = "attach" THEN (IF ok THEN "copy" ELSE "returned")
    ELSE IF step = "copy" THEN (IF ok THEN "inspect" ELSE "returned")
    ELSE "returned"

Step(step, ok) == [step |-> step, ok |-> ok]

\* defer resp.Close(), run when Exec returns after the attach.
DeferredCloseMissing(released) == released

DeferredClose(released) == released + 1

\* What Exec returns once the exit code is known.
ExecResultNoCode(exitCode, outBuf, errBuf) ==
    IF exitCode # 0
    THEN <<outBuf,
           [Wrapped("COMMAND EXITIED WITH CODE ", "", "")
               EXCEPT !.text = errBuf]>>
    ELSE <<outBuf, NilErr>>

ExecResult(exitCode, outBuf, errBuf) ==
    IF exitCode # 0
    THEN <<<<>>,
           [Wrapped("COMMAND EXITIED WITH CODE ", "", "")
               EXCEPT !.code = Sprint(exitCode), !.text = errBuf]>>
    ELSE <<outBuf, NilErr>>

\* execIDResp, err := DockerClient.ContainerExecCreate(...)
ExecCreate ==
    /\ exec.pc = "idle"
    /\ \/ \E err \in EngineErrs :
             exec' = [ExecIdle EXCEPT !.pc = NextStep("create", FALSE),
                         !.trace = <<Step("create", FALSE)>>,
                         !.err = Wrapped("FAILED TO CREATE EXEC ISNTANCE", "", err)]
       \/ exec' = [ExecIdle EXCEPT !.pc = NextStep("create", TRUE),
                       !.trace = <<Step("create", TRUE)>>]
    /\ UNCHANGED <<build, images, del, delLog, containers, last, untagged, pruned, conc>>

\* resp, err := DockerClient.ContainerExecAttach(...); defer resp.Close()
ExecAttach ==
    /\ exec.pc = "attach"
    /\ \/ \E err \in EngineErrs :
             exec' = [exec EXCEPT !.pc = NextStep("attach", FALSE),
                         !.trace = Append(exec.trace, Step("attach", FALSE)),
                         !.err = Wrapped("FAILED TO ATTACH TO EXEC INSTANCE", "", err)]
       \/ \E frames \in SeqsUpTo(Frames, MaxFrames), end \in {"EOF", "ERR"} :
             exec' = [exec EXCEPT !.pc = NextStep("attach", TRUE), !.attached = TRUE,
                         !.trace = Append(exec.trace, Step("attach", TRUE)),
                         !.frames = frames, !.wire = Mux(frames), !.end = end]
    /\ UNCHANGED <<build, images, del, delLog, containers, last, untagged, pruned, conc>>

\* stdcopy.StdCopy, one src.Read: the transport hands over any number of the
\* bytes to come; at their end the read fails with io.EOF, which ends the copy
\* (a read that brings io.EOF with its last bytes ends it the same way), or
\* with another error, which fails it.
ExecCopyRead ==
    /\ exec.pc = "copy"
    /\ Len(exec.buf) < Need(exec.buf)
    /\ IF exec.wire # <<>>
       THEN \E n \in 1..Len(exec.wire) :
               LET got == exec.buf \o SubSeq(exec.wire, 1, n)
               IN  exec' = [exec EXCEPT !.buf = got,
                               !.wire = SubSeq(exec.wire, n + 1, Len(exec.wire)),
                               !.split = exec.split \/ Len(got) < Need(got)]
       ELSE IF exec.end = "EOF"
       THEN exec' = [exec EXCEPT !.pc = NextStep("copy", TRUE), !.copied = TRUE,
                        !.trace = Append(exec.trace, Step("copy", TRUE))]
       ELSE exec' = [exec EXCEPT !.pc = NextStep("copy", FALSE),
                        !.trace = Append(exec.trace, Step("copy", FALSE)),
                        !.released = DeferredClose(exec.released),
                        !.err = Wrapped("FAILED TO COPY EXEC OUTPUT", "", "read error")]
    /\ UNCHANGED <<build, images, del, delLog, containers, last, untagged, pruned, conc>>

\* stdcopy.StdCopy, one frame in the buffer: written to the buffer of its
\* origin and dropped from buf; a Systemerr frame fails the copy.
ExecCopyFrame ==
    /\ exec.pc = "copy"
    /\ Len(exec.buf) >= Need(exec.buf)
    /\ LET stream == exec.buf[StdWriterFdIndex]
           rest   == FrameRest(exec.buf)
       IN  IF stream = Systemerr
           THEN exec' = [exec EXCEPT !.pc = NextStep("copy", FALSE),
                            !.trace = Append(exec.trace, Step("copy", FALSE)),
                            !.released = DeferredClose(exec.released),
                            !.err = Wrapped("FAILED TO COPY EXEC OUTPUT", "",
                                            "error from daemon in stream")]
           ELSE IF stream = Stderr
           THEN exec' = [exec EXCEPT !.errBuf = exec.errBuf \o FramePayload(exec.buf),
                            !.buf = rest]
           ELSE exec' = [exec EXCEPT !.outBuf = exec.outBuf \o FramePayload(exec.buf),
                            !.buf = rest]
    /\ UNCHANGED <<build, images, del, delLog, containers, last, untagged, pruned, conc>>

\* execInspectResp, err := DockerClient.ContainerExecInspect(...), the test of
\* the exit code and the return.
ExecInspect ==
    /\ exec.pc = "inspect"
    /\ \/ \E err \in EngineErrs :
             exec' = [exec EXCEPT !.pc = NextStep("inspect", FALSE),
                         !.trace = Append(exec.trace, Step("inspect", FALSE)),
                         !.released = DeferredClose(exec.released),
                         !.err = Wrapped("FAILED TO INSPECT EXEC INSTANCE", "", err)]
       \/ \E code \in ExitCodes :
             LET res == ExecResult(code, exec.outBuf, exec.errBuf)
             IN  exec' = [exec EXCEPT !.pc = NextStep("inspect", TRUE), !.inspected = TRUE,
                             !.trace = Append(exec.trace, Step("inspect", TRUE)),
                             !.exitCode = code,
                             !.released = DeferredClose(exec.released),
                             !.ret = res[1], !.err = res[2]]
    /\ UNCHANGED <<build, images, del, delLog, containers, last, untagged, pruned, conc>>

\* The caller takes the result; the next call starts from scratch.
ExecReturn ==
    /\ exec.pc = "returned"
    /\ exec' = ExecIdle
    /\ UNCHANGED <<build, images, del, delLog, containers, last, untagged, pruned, conc>>

----------------------------------------------------------------------------
(* CreateContainer, StartContainer, StopContainer, PurgeContainer,          *)
(* GetContainerHealthStatus                                                *)

ContainerIDs == {"c1", "c2"}

ContainerNames == {"web", "db"}

\* ContainerCreateConfig: Name, and Config: nil, or a container.Config without
\* or with a Healthcheck.
CreateConfigs == [Name : ContainerNames, Config : {"nil", "plain", "healthcheck"}]

\* State.Health of an inspected container is nil when it has no healthcheck.
NoHealth == "nil"

HealthStatuses == {"starting", "healthy", "unhealthy"}

Absent == [state |-> "absent", name |-> "", health |-> NoHealth]

\* A removed container: the engine gives its ID to no later container.
Purged == [state |-> "purged", name |-> "", health |-> NoHealth]

Held(c) == c.state \in {"created", "running", "exited"}

NoOptions == [RemoveVolumes |-> FALSE, RemoveLinks |-> FALSE, Force |-> FALSE]

LastNone ==
    [op |-> "none", id |-> "", outcome |-> "returned", err |-> NilErr,
     status |-> "", before |-> "absent", after |-> "absent",
     engineErr |-> "", health |-> NoHealth,
     requests |-> <<>>, engineAfter |-> "absent", opts |-> NoOptions]

\* An error handed on as the engine gave it.
Unwrapped(err) == Wrapped("", "", err)

\* CreateContainer's return values, given the engine's response.
CreateResult(name, id, err) ==
    IF err # ""
    THEN <<id, Wrapped("FAILED TO CREATE CONTAINER ", name, err)>>
    ELSE <<id, NilErr>>

\* StartContainer's return value, given the engine's error ("" for none).
StartResultSwallowed(id, err) == NilErr

StartResultNoCause(id, err) ==
    IF err # ""
    THEN Wrapped("FAILED TO START CONTAINER WITH ID: ", id, "")
    ELSE NilErr

StartResult(id, err) ==
    IF err # ""
    THEN Wrapped("FAILED TO START CONTAINER WITH ID: ", id, err)
    ELSE NilErr

StopOptions == [Signal |-> "SIGTERM"]

StopResult(id, err) ==
    IF err # ""
    THEN Wrapped("FAILED TO STOP CONTAINER WITH ID: ", id, err)
    ELSE NilErr

PurgeOptionsUnforced == [RemoveVolumes |-> TRUE, RemoveLinks |-> FALSE, Force |-> FALSE]

PurgeOptions == [RemoveVolumes |-> TRUE, RemoveLinks |-> FALSE, Force |-> TRUE]

PurgeResult(id, err) ==
    IF err # ""
    THEN Wrapped("FAILED TO PURGE CONTAINER WITH ID: ", id, err)
    ELSE NilErr

\* GetContainerHealthStatus's outcome, given ContainerInspect's error and the
\* inspected State.Health: the dereference of a nil Health panics.
HealthResult(err, health) ==
    IF err # "" THEN <<"returned", "unhealthy", Unwrapped(err)>>
    ELSE IF health = NoHealth THEN <<"panicked", "", NilErr>>
    ELSE <<"returned", health, NilErr>>

\* The engine request each operation sends.
StartRequest == "start"

StopRequestWrong == "start"

StopRequest == "stop"

PurgeRequest == "remove"

\* The engine requests an operation sends after its first one was answered
\* with err: every operation returns right after the answer.
FollowUpPurgesFailedStart(op, err) ==
    IF op = "start" /\ err # "" THEN <<"remove">> ELSE <<>>

FollowUp(op, err) == <<>>

\* What keeps the engine from carrying out a request on a container: it does
\* not hold the container, or the container runs and the removal is not forced.
Rejections(req, c, force) ==
    IF ~Held(c) THEN {"No such container"}
    ELSE IF req = "remove" /\ c.state = "running" /\ ~force
    THEN {"conflict: container is running"}
    ELSE {}

\* The engine's answers to a request: no error (""), unless the container's
\* state rejects the request; and the engine's own failures.
Answers(req, c, force) ==
    EngineErrs \cup (IF Rejections(req, c, force) = {} THEN {""} ELSE Rejections(req, c, force))

\* The container after the engine has carried out a request: a start runs
\* it (again, if it had ended), a stop ends it if it runs, a removal takes it.
Effect(req, c) ==
    IF ~Held(c) THEN c
    ELSE IF req = "start" THEN [c EXCEPT !.state = "running"]
    ELSE IF req = "stop"
    THEN (IF c.state = "running" THEN [c EXCEPT !.state = "exited"] ELSE c)
    ELSE IF req = "remove" THEN Purged
    ELSE c

RECURSIVE ApplyAll(_, _)
ApplyAll(c, reqs) ==
    IF reqs = <<>> THEN c ELSE ApplyAll(Effect(Head(reqs), c), Tail(reqs))

NameInUse(name) == \E c \in ContainerIDs : containers[c].name = name

\* The request of one operation on container id, answered with err, and what
\* the operation returns.
Call(op, req, id, err, result, opts) ==
    LET c     == containers[id]
        c1    == IF err = "" THEN Effect(req, c) ELSE c
        more  == FollowUp(op, err)
    IN  /\ containers' = [containers EXCEPT ![id] = ApplyAll(c1, more)]
        /\ last' = [LastNone EXCEPT !.op = op, !.id = id,
                       !.err = result, !.engineErr = err,
                       !.before = c.state,
                       !.engineAfter = c1.state,
                       !.after = containers'[id].state,
                       !.requests = <<req>> \o more,
                       !.opts = opts]

\* containerRes, err := DockerClient.ContainerCreate(...): the engine rejects
\* a nil Config and a name in use, and whatever else it cannot do.
CreateContainer ==
    /\ \E config \in CreateConfigs :
          \/ \E err \in EngineErrs :
                LET res == CreateResult(config.Name, "", err)
                IN  /\ last' = [LastNone EXCEPT !.op = "create", !.id = res[1],
                                   !.err = res[2], !.engineErr = err,
                                   !.requests = <<"create">> \o FollowUp("create", err)]
                    /\ UNCHANGED containers
          \/ \E id \in ContainerIDs :
                /\ containers[id].state = "absent"
                /\ config.Config # "nil"
                /\ ~NameInUse(config.Name)
                /\ containers' = [containers EXCEPT ![id] =
                      [state |-> "created", name |-> config.Name,
                       health |-> IF config.Config = "healthcheck"
                                  THEN "starting" ELSE NoHealth]]
                /\ LET res == CreateResult(config.Name, id, "")
                   IN  last' = [LastNone EXCEPT !.op = "create", !.id = res[1],
                                   !.err = res[2], !.after = "created",
                                   !.engineAfter = "created",
                                   !.requests = <<"create">> \o FollowUp("create", "")]
    /\ UNCHANGED <<build, images, del, delLog, exec, untagged, pruned, conc>>

\* err := DockerClient.ContainerStart(ctx, cont.ID, StartOptions{}): the engine
\* starts a container that is not running, answers "not modified" (no error)
\* for one that is, and rejects the request for a container it does not
\* hold or cannot start.
StartContainer ==
    /\ \E id \in ContainerIDs :
          \E err \in Answers(StartRequest, containers[id], FALSE) :
             Call("start", StartRequest, id, err, StartResult(id, err), NoOptions)
    /\ UNCHANGED <<build, images, del, delLog, exec, untagged, pruned, conc>>

\* err := DockerClient.ContainerStop(ctx, containerID, StopOptions{Signal: "SIGTERM"}):
\* a running container ends; one that does not run is left as it is.
StopContainer ==
    /\ \E id \in ContainerIDs :
          \E err \in Answers(StopRequest, containers[id], FALSE) :
             Call("stop", StopRequest, id, err, StopResult(id, err), NoOptions)
    /\ UNCHANGED <<build, images, del, delLog, exec, untagged, pruned, conc>>

\* err := DockerClient.ContainerRemove(ctx, containerID, removeOptions): the
\* forced removal takes the container in any state.
PurgeContainer ==
    /\ \E id \in ContainerIDs :
          \E err \in Answers(PurgeRequest, containers[id], PurgeOptions.Force) :
             Call("purge", PurgeRequest, id, err, PurgeResult(id, err), PurgeOptions)
    /\ UNCHANGED <<build, images, del, delLog, exec, untagged, pruned, conc>>

\* containerJSON, err := DockerClient.ContainerInspect(ctx, containerID) and
\* the return of containerJSON.State.Health.Status.
GetContainerHealthStatus ==
    /\ \E id \in ContainerIDs :
          \E err \in Answers("inspect", containers[id], FALSE) :
             LET res == HealthResult(err, containers[id].health)
             IN  last' = [LastNone EXCEPT !.op = "health", !.id = id,
                             !.outcome = res[1], !.status = res[2], !.err = res[3],
                             !.engineErr = err,
                             !.before = containers[id].state,
                             !.engineAfter = containers[id].state,
                             !.after = containers[id].state,
                             !.health = containers[id].health,
                             !.requests = <<"inspect">>]
    /\ UNCHANGED <<build, images, del, delLog, exec, containers, untagged, pruned, conc>>

\* The engine runs the healthcheck of a running container.
EngineHealthProbe ==
    /\ \E id \in ContainerIDs, h \in HealthStatuses \ {"starting"} :
          /\ containers[id].state = "running"
          /\ containers[id].health \notin {NoHealth, h}
          /\ containers' = [containers EXCEPT ![id].health = h]
    /\ UNCHANGED <<build, images, del, delLog, exec, last, untagged, pruned, conc>>

\* The process of a running container ends by itself.
EngineContainerExits ==
    /\ \E id \in ContainerIDs :
          /\ containers[id].state = "running"
          /\ containers' = [containers EXCEPT ![id].state = "exited"]
    /\ UNCHANGED <<build, images, del, delLog, exec, last, untagged, pruned, conc>>

----------------------------------------------------------------------------
(* Specifications, one for each component: the others stay idle.            *)

Idle ==
    /\ build = BuildIdle
    /\ del = DelIdle
    /\ delLog = <<>>
    /\ exec = ExecIdle
    /\ last = LastNone
    /\ pruned = PruneIdle
    /\ conc = ConcIdle

InitBuild ==
    /\ Idle
    /\ untagged = [id \in ImageIDs |-> "no"]
    /\ containers = [c \in ContainerIDs |-> Absent]
    /\ images = [n \in ImageTags |-> NoImage]

NextBuild == BuildTar \/ BuildSubmit \/ BuildDecode \/ BuildReturn

SpecBuild == InitBuild /\ [][NextBuild]_vars

\* BuildImage runs on a goroutine that is never held back: a step the call
\* can take is taken.
SpecBuildFair == SpecBuild /\ WF_vars(NextBuild)

InitImageGC ==
    /\ Idle
    /\ containers = [c \in ContainerIDs |-> Absent]
    /\ images \in [ImageTags -> ImageIDs \cup {NoImage}]
    /\ untagged \in [ImageIDs -> {"no", "dangling", "referenced"}]
    /\ \A id \in Tagged(images) : untagged[id] = "no"

NextImageGC ==
    DeleteImageInspect \/ DeleteImageRemove \/ EngineTagImage \/ PruneDanglingImages

SpecImageGC == InitImageGC /\ [][NextImageGC]_vars

\* Two goroutines of the caller each run one DeleteImage, on different names.
InitConcurrent ==
    /\ build = BuildIdle
    /\ del = DelIdle
    /\ delLog = <<>>
    /\ exec = ExecIdle
    /\ last = LastNone
    /\ pruned = PruneIdle
    /\ containers = [c \in ContainerIDs |-> Absent]
    /\ untagged = [id \in ImageIDs |-> "no"]
    /\ images \in [ImageTags -> ImageIDs \cup {NoImage}]
    /\ \E t \in Targets : conc = [ConcIdle EXCEPT !.target = t, !.before = images]

NextConcurrent == \E p \in Callers : ConcInspect(p) \/ ConcRemove(p)

SpecConcurrent == InitConcurrent /\ [][NextConcurrent]_vars

InitExec ==
    /\ Idle
    /\ untagged = [id \in ImageIDs |-> "no"]
    /\ containers = [c \in ContainerIDs |-> Absent]
    /\ images = [n \in ImageTags |-> NoImage]

NextExec ==
    ExecCreate \/ ExecAttach \/ ExecCopyRead \/ ExecCopyFrame \/ ExecInspect \/ ExecReturn

SpecExec == InitExec /\ [][NextExec]_vars

InitContainer ==
    /\ Idle
    /\ untagged = [id \in ImageIDs |-> "no"]
    /\ images = [n \in ImageTags |-> NoImage]
    /\ containers = [c \in ContainerIDs |-> Absent]

NextContainer ==
    \/ CreateContainer
    \/ StartContainer
    \/ StopContainer
    \/ PurgeContainer
    \/ GetContainerHealthStatus
    \/ EngineHealthProbe
    \/ EngineContainerExits

SpecContainer == InitContainer /\ [][NextContainer]_vars

----------------------------------------------------------------------------
(* Claims about BuildImage                                                 *)

\* C1: BuildImage returns a nil error if and only if the build log reached
\* end-of-stream with no error record in it; an error record anywhere in the
\* log makes the returned error non-nil.
C1_SuccessIffNoErrorRecord ==
    (build.pc = "returned" /\ build.responded)
        => ((build.err = NilErr) <=> ~HasErrorRecord(build.log))

\* C2: once BuildImage has a build response, the body is never closed twice,
\* and it has been closed exactly once when BuildImage returns; without a
\* response nothing is closed.
C2_BodyClosedOnceOnReturn ==
    /\ build.closed <= 1
    /\ (build.pc = "returned" /\ build.responded) => build.closed = 1
    /\ ~build.responded => build.closed = 0

\* BuildImage has returned from a log that held an error record and a record
\* that does not decode, with the body closed once.
C2_Witness ==
    /\ build.pc = "returned"
    /\ build.responded
    /\ HasErrorRecord(build.log)
    /\ \E i \in 1..Len(build.log) : build.log[i] = "malformed"
    /\ build.closed = 1

----------------------------------------------------------------------------
(* Claims about DeleteImage                                                *)

IsDelete(e) == e.op = "delete"

\* C3: a DeleteImage call that finds the image and removes it returns
\* (true, nil), a DeleteImage call on the same name right after it returns
\* (false, nil), and a call on a name that is absent returns (false, nil).
C3_DeleteIdempotent ==
    \A i \in 1..Len(delLog) :
        LET e == delLog[i]
        IN  IsDelete(e) =>
              /\ (e.lookupOK /\ e.removeOK) => (e.existed /\ e.err = NilErr)
              /\ (e.lookupOK /\ e.removeOK /\ i < Len(delLog)
                    /\ IsDelete(delLog[i + 1]) /\ delLog[i + 1].name = e.name)
                  => (~delLog[i + 1].existed /\ delLog[i + 1].err = NilErr)
              /\ ~e.present => (~e.existed /\ e.err = NilErr)

\* Two calls in a row on one name: (true, nil), then (false, nil).
C3_Witness ==
    \E i \in 1..(Len(delLog) - 1) :
        /\ IsDelete(delLog[i]) /\ IsDelete(delLog[i + 1])
        /\ delLog[i].name = delLog[i + 1].name
        /\ delLog[i].lookupOK /\ delLog[i].removeOK
        /\ delLog[i].existed /\ delLog[i].err = NilErr
        /\ ~delLog[i + 1].existed /\ delLog[i + 1].err = NilErr

\* C4: when the lookup succeeds and the removal fails, DeleteImage returns
\* (true, err) with err non-nil; existed is true whenever the lookup
\* succeeded, so (false, nil) never stands for a found image.
C4_ExistedTrueOnRemoveFailure ==
    \A i \in 1..Len(delLog) :
        LET e == delLog[i]
        IN  IsDelete(e) =>
              /\ (e.lookupOK /\ ~e.removeOK) => (e.existed /\ e.err # NilErr)
              /\ e.lookupOK => e.existed

\* A call whose lookup succeeded and whose removal the engine rejected.
C4_Witness ==
    \E i \in 1..Len(delLog) :
        /\ IsDelete(delLog[i])
        /\ delLog[i].lookupOK /\ ~delLog[i].removeOK
        /\ delLog[i].existed
        /\ delLog[i].err.kind = "error"
        /\ delLog[i].err.ident = delLog[i].name

----------------------------------------------------------------------------
(* Claims about Exec                                                       *)

\* The number a decimal text stands for.
RECURSIVE ParseDecimal(_)
ParseDecimal(d) ==
    IF d = <<>> THEN 0
    ELSE ParseDecimal(SubSeq(d, 1, Len(d) - 1)) * 10 + (d[Len(d)] - 48)

Contains(s, t) ==
    \E i \in 0..(Len(s) - Len(t)) : SubSeq(s, i + 1, i + Len(t)) = t

RECURSIVE PayloadsOf(_, _)
PayloadsOf(frames, tag) ==
    IF frames = <<>> THEN <<>>
    ELSE (IF Head(frames).tag = tag THEN Head(frames).payload ELSE <<>>)
            \o PayloadsOf(Tail(frames), tag)

\* C5: when create, attach, copy and inspect all succeeded, exit code 0 gives
\* the accumulated stdout and a nil error; any other exit code gives an error
\* that holds that exit code in decimal and the accumulated stderr, and a
\* returned string that holds none of the captured stdout.
C5_ExitCodeContract ==
    (exec.pc = "returned" /\ exec.inspected) =>
        /\ exec.exitCode = 0 => (exec.ret = exec.outBuf /\ exec.err = NilErr)
        /\ exec.exitCode # 0 =>
              /\ exec.err.kind = "error"
              /\ exec.err.code # <<>>
              /\ ParseDecimal(exec.err.code) = exec.exitCode
              /\ exec.err.text = exec.errBuf
              /\ exec.ret = <<>>
              /\ exec.outBuf # <<>> => ~Contains(exec.ret, exec.outBuf)

\* Exec has returned for a command that wrote to stdout and to stderr and
\* exited with code 127.
C5_Witness ==
    /\ exec.pc = "returned"
    /\ exec.inspected
    /\ exec.exitCode = 127
    /\ exec.outBuf # <<>>
    /\ exec.errBuf # <<>>
    /\ exec.err.code = <<49, 50, 55>>
    /\ exec.err.text = exec.errBuf

\* C6: the attach handle is never released twice; when Exec has returned it
\* has been released exactly once if the attach succeeded, on every way out,
\* and not at all if exec-create or the attach failed.
C6_HandleReleasedOnce ==
    /\ exec.released <= 1
    /\ exec.pc = "returned" => exec.released = (IF exec.attached THEN 1 ELSE 0)
    /\ ~exec.attached => exec.released = 0

\* Exec has returned because the final exec-inspect failed, the handle
\* released once.
C6_Witness ==
    /\ exec.pc = "returned"
    /\ exec.attached
    /\ exec.copied
    /\ ~exec.inspected
    /\ exec.released = 1

\* C7: whatever the reads the stream arrives in, a copy that ends without
\* error has put the stdout frames' payloads, in order, into the stdout
\* buffer and the stderr frames' payloads, in order, into the stderr buffer;
\* and the copy of a stream of stdout and stderr frames that ends with
\* end-of-stream ends without error.
C7_DemuxIgnoresFragmentation ==
    /\ exec.copied =>
          /\ exec.outBuf = PayloadsOf(exec.frames, Stdout)
          /\ exec.errBuf = PayloadsOf(exec.frames, Stderr)
    /\ (/\ exec.pc \in {"inspect", "returned"}
        /\ exec.attached
        /\ exec.end = "EOF"
        /\ \A i \in 1..Len(exec.frames) : exec.frames[i].tag # Systemerr)
          => exec.copied

\* A stderr frame and a stdout frame, one of them split over several reads,
\* copied to the end.
C7_Witness ==
    /\ exec.copied
    /\ exec.split
    /\ Len(exec.frames) = 2
    /\ exec.frames[1].tag = Stderr /\ exec.frames[1].payload = <<104, 105>>
    /\ exec.frames[2].tag = Stdout /\ exec.frames[2].payload = <<104>>
    /\ exec.outBuf = <<104>>
    /\ exec.errBuf = <<104, 105>>

----------------------------------------------------------------------------
(* Claims about GetContainerHealthStatus, CreateContainer, StartContainer   *)

\* C8: a GetContainerHealthStatus call whose inspection fails returns
\* "unhealthy" and the inspection's error, and a call whose inspection
\* succeeds returns a nil error.
C8_ProbeFailureSurfaced ==
    last.op = "health" =>
        /\ last.engineErr # "" =>
              /\ last.outcome = "returned"
              /\ last.status = "unhealthy"
              /\ last.err.kind = "error"
              /\ last.err.cause = last.engineErr
        /\ last.engineErr = "" =>
              /\ last.outcome = "returned"
              /\ last.err = NilErr

\* C9: every GetContainerHealthStatus call returns a status among starting,
\* healthy and unhealthy, which is the container's own health status when
\* the inspection succeeded, also for a container without a healthcheck.
C9_StatusAlwaysReturned ==
    last.op = "health" =>
        /\ last.outcome = "returned"
        /\ last.status \in HealthStatuses
        /\ last.engineErr = "" => last.status = last.health

\* C10: a StartContainer that returns nil leaves the container running; a
\* StartContainer on a created container that leaves it created returns a
\* non-nil error.
C10_StartRunsOrFails ==
    last.op = "start" =>
        /\ last.err = NilErr => last.after = "running"
        /\ (last.before = "created" /\ last.after = "created") => last.err # NilErr

\* StartContainer on a created container returned nil and the container runs.
C10_Witness ==
    /\ last.op = "start"
    /\ last.before = "created"
    /\ last.after = "running"
    /\ containers[last.id].state = "running"
    /\ last.err = NilErr

----------------------------------------------------------------------------
(* Claims about PurgeContainer and the lifecycle                           *)

StateRejections == {"No such container", "conflict: container is running"}

\* C11: PurgeContainer on a container the engine holds is never rejected for
\* the container's state, be it created, running or ended: whenever the
\* engine itself does not fail, PurgeContainer returns nil and the container
\* is gone; and its removal request is forced, removes the anonymous volumes
\* and does not remove links.
C11_PurgeFromEveryState ==
    (last.op = "purge" /\ last.before \in {"created", "running", "exited"}) =>
        /\ last.engineErr \notin StateRejections
        /\ last.engineErr = "" => (last.err = NilErr /\ last.after = "purged")
        /\ last.opts.Force
        /\ last.opts.RemoveVolumes
        /\ ~last.opts.RemoveLinks

\* PurgeContainer has removed a running container that was never stopped.
C11_Witness ==
    /\ last.op = "purge"
    /\ last.before = "running"
    /\ last.after = "purged"
    /\ containers[last.id].state = "purged"
    /\ last.err = NilErr

Rank(state) ==
    CASE state = "absent"  -> 0
      [] state = "created" -> 1
      [] state = "running" -> 2
      [] state = "exited"  -> 3
      [] state = "purged"  -> 4

\* C12 as claimed: no container ever moves back to an earlier state of
\* Created, Running, Stopped, Purged, and a purged one stays purged.
C12_LinearSinglePass ==
    [][\A id \in ContainerIDs :
          Rank(containers'[id].state) >= Rank(containers[id].state)]_vars

\* C12, amended: a container moves back only from Stopped to Running, and
\* only by a StartContainer call on it; a purged container stays purged.
C12_OnlyStartRestarts ==
    [][\A id \in ContainerIDs :
          /\ containers[id].state = "purged" => containers'[id].state = "purged"
          /\ \/ Rank(containers'[id].state) >= Rank(containers[id].state)
             \/ /\ containers[id].state = "exited"
                /\ containers'[id].state = "running"
                /\ last'.op = "start"
                /\ last'.id = id]_vars

\* StartContainer has run an ended container again.
C12_Witness ==
    /\ last.op = "start"
    /\ last.before = "exited"
    /\ last.after = "running"
    /\ last.err = NilErr

\* C13: whenever the engine answers the start request with an error,
\* StartContainer returns a non-nil error that holds the engine's error text,
\* also for a second StartContainer on a container that runs.
C13_StartErrorSurfaced ==
    (last.op = "start" /\ last.engineErr # "") =>
        /\ last.err.kind = "error"
        /\ last.err.cause = last.engineErr

\* The engine has rejected the start of a container that already runs, and
\* StartContainer has returned its error.
C13_Witness ==
    /\ last.op = "start"
    /\ last.before = "running"
    /\ last.engineErr # ""
    /\ last.err.cause = last.engineErr
    /\ last.err.ident = last.id

RequestOf(op) ==
    CASE op = "create" -> "create"
      [] op = "start"  -> "start"
      [] op = "stop"   -> "stop"
      [] op = "purge"  -> "remove"

\* C14: each CreateContainer, StartContainer, StopContainer and
\* PurgeContainer call sends one engine request, its own; after a rejected
\* request it sends no other, and the container is left as the request left
\* it, which for a rejected request is as it was.
C14_OneRequestNoCompensation ==
    last.op \in {"create", "start", "stop", "purge"} =>
        /\ last.requests = <<RequestOf(last.op)>>
        /\ last.after = last.engineAfter
        /\ last.engineErr # "" => last.after = last.before

\* The engine has rejected the start of a created container: one request was
\* sent and the container is still created.
C14_Witness ==
    /\ last.op = "start"
    /\ last.engineErr # ""
    /\ last.before = "created"
    /\ last.requests = <<"start">>
    /\ containers[last.id].state = "created"

\* C15: every non-nil error an operation returns has a category label and
\* the identifier of what the call was about.
C15_ErrorsLabelledAndIdentified ==
    last.err # NilErr =>
        /\ last.err.label # ""
        /\ last.err.ident # ""

----------------------------------------------------------------------------
(* Claims about the order of Exec's steps                                  *)

ExecOrder == <<"create", "attach", "copy", "inspect">>

\* C17: the steps Exec has taken are exec-create, attach, copy, exec-inspect
\* in this order, each one taken only after all the earlier ones succeeded;
\* when the exec instance is inspected, the attached stream has been read to
\* its end.
C17_ExecStepOrder ==
    /\ Len(exec.trace) <= Len(ExecOrder)
    /\ \A i \in 1..Len(exec.trace) :
          /\ exec.trace[i].step = ExecOrder[i]
          /\ i < Len(exec.trace) => exec.trace[i].ok
    /\ (Len(exec.trace) = 4 \/ exec.pc = "inspect") =>
          /\ exec.copied
          /\ exec.wire = <<>>
          /\ exec.buf = <<>>
          /\ exec.end = "EOF"

\* Exec has returned after all four steps, with a stream of two frames that
\* came in pieces read to its end before the inspection.
C17_Witness ==
    /\ exec.pc = "returned"
    /\ Len(exec.frames) = 2
    /\ exec.split
    /\ exec.wire = <<>>
    /\ exec.trace = <<Step("create", TRUE), Step("attach", TRUE),
                      Step("copy", TRUE), Step("inspect", TRUE)>>

\* C20: whenever DeleteImage returns a nil error, the named image is not in
\* the engine afterwards; (false, nil) is returned only for an image that is
\* really absent, also when the lookup failed for another reason.
C20_NilErrorMeansGone ==
    \A i \in 1..Len(delLog) :
        LET e == delLog[i]
        IN  (IsDelete(e) /\ e.err = NilErr) => e.gone

\* C20 as the code has it: a nil error means the image is gone exactly when
\* the lookup answered or the image was absent; after a lookup that failed on
\* an image the engine holds, DeleteImage returns (false, nil) and the image
\* is still there.
C20_NilErrorMeansGoneUnlessLookupFailed ==
    \A i \in 1..Len(delLog) :
        LET e == delLog[i]
        IN  (IsDelete(e) /\ e.err = NilErr) =>
                /\ e.gone <=> (e.lookupOK \/ ~e.present)
                /\ ~e.lookupOK => ~e.existed

\* A call whose lookup failed on an image the engine holds, and a call that
\* removed one.
C20_Witness ==
    /\ \E i \in 1..Len(delLog) :
          /\ IsDelete(delLog[i]) /\ delLog[i].err = NilErr
          /\ delLog[i].present /\ ~delLog[i].lookupOK /\ ~delLog[i].gone
    /\ \E i \in 1..Len(delLog) :
          /\ IsDelete(delLog[i]) /\ delLog[i].err = NilErr
          /\ delLog[i].present /\ delLog[i].lookupOK /\ delLog[i].gone

\* C19: once the engine has returned a response, BuildImage eventually
\* returns, whether the stream ends normally or a read or a decode fails with
\* an error other than end-of-stream, a read error that repeats included.
C19_BuildTerminates ==
    (build.pc = "decode" /\ build.responded) ~> (build.pc = "returned")

\* C16: PruneDanglingImages called when the engine holds no dangling image
\* returns a report with an empty removed list and zero reclaimed bytes, and
\* a nil error; it fails only when the engine fails the request, and every image
\* that has a name or that something refers to is still there after it.
C16_PruneNothingToPrune ==
    pruned.done =>
        /\ (pruned.engineOK /\ pruned.dangling = {}) =>
              /\ pruned.report.ImagesDeleted = {}
              /\ pruned.report.SpaceReclaimed = 0
              /\ pruned.err = NilErr
        /\ pruned.err # NilErr => ~pruned.engineOK
        /\ pruned.report.ImagesDeleted \cap (pruned.tagged \cup pruned.referenced) = {}
        /\ pruned.taggedAfter = pruned.tagged
        /\ pruned.referencedAfter = pruned.referenced

\* A call that found nothing dangling while the engine held an image with a
\* name and one that is referenced without a name.
C16_Witness ==
    /\ pruned.done /\ pruned.engineOK
    /\ pruned.dangling = {}
    /\ pruned.tagged # {} /\ pruned.referenced # {}
    /\ pruned.report = NoReport
    /\ pruned.err = NilErr

AllDone == \A p \in Callers : conc.frame[p].pc = "done"

====
